---- MODULE Spec2Model ----
(***************************************************************************)
(* A model of the IRMA mint front-end: the rate limiter, the connection    *)
(* selector, the order parameter calculator and the order submitter of     *)
(* src/lib/mint.ts, the balance reader of src/components/TokenBalances.tsx *)
(* and the form of src/components/MintForm.tsx.                            *)
(*                                                                         *)
(* JavaScript runs each synchronous segment of an async function to        *)
(* completion; the suspension points are the awaits.  One action of this   *)
(* model is one such segment: it starts where an await resumes (or where   *)
(* the function is called) and ends at the next await or at the return.    *)
(* Date.now() is the variable now; a segment reads one value of it.        *)
(***************************************************************************)
EXTENDS Integers, Sequences, FiniteSets

VARIABLES
  now,              \* the wall clock, Date.now(), in ms
  lastRequestTime,  \* RateLimiter.lastRequestTime
  thr,              \* per caller: the throttle() call in flight
  retLog,           \* history: the throttle() calls that returned, in order
  overlapped,       \* history: a throttle() call began while another waited
  m,                \* per invocation of mintIrmaToken: its locals and position
  calls,            \* mintIrmaToken invocations begun
  prevConn,         \* history: what the previous getWorkingConnection gave
  q,                \* what the last market query function returned
  lots,             \* the order parameter calculator: its inputs and results
  wallet,           \* the connected wallet (useWallet's publicKey), 0 for none
  form,             \* MintForm: its React state and its submissions
  bal               \* TokenBalances: its React state and its fetch runs

rlVars == <<now, lastRequestTime, thr, retLog, overlapped>>
mintVars == <<m, calls, prevConn>>

uiVars == <<wallet, form, bal>>

vars == <<rlVars, mintVars, q, lots, uiVars>>

----------------------------------------------------------------------------
(* Bounds *)

StartTime == 5000   \* the clock at start; Date.now() is far above the delay
TickMs == 400       \* one step of the clock
MaxTicks == 8       \* the clock stops after this many steps
MaxReturns == 3     \* throttle() calls followed in the rate limiter harness
MintTicks == 3      \* the clock's steps while orders are submitted
MaxCalls == 2       \* mintIrmaToken invocations followed, one after the other
MaxLot == 2         \* the largest lot size a fetched market declares
MaxLotSize == 3     \* the largest lot size given to the calculator
ReadTicks == 3      \* the clock's steps while balances are read
MaxFetches == 2     \* fetchTokenBalances runs followed
MaxUpdates == 2     \* balance lists delivered to the form
MaxMints == 2       \* submissions from the form followed
MaxClicks == 3      \* calls of handleMint followed

(* Program constants *)

RATE_LIMIT_DELAY == 1000

MICRO == 1000000

LAMPORTS_PER_SOL == 1000000000

Callers == {1, 2}

NoLots == [price |-> 0, size |-> 0, baseLotSize |-> 1, quoteLotSize |-> 1,
           done |-> FALSE, priceLots |-> 0, maxBaseLots |-> 0,
           maxQuoteLots |-> 0, variantPriceLots |-> 0,
           requestSide |-> "none", side |-> "none",
           variantRequestSide |-> "none", variantSide |-> "none"]

\* The tracked tokens.
TOKENS ==
  <<[mint |-> "BGySzmvQrR69thSD5iVhhBrQ1CLnFYKakszRFuzwb1yj",
     symbol |-> "IRMA"],
    [mint |-> "7zSzGfA7r8cxhGPyJUX2CJzViLS9FX7a2b3F94qcZLkU",
     symbol |-> "USDC"]>>

\* The wallets a user connects.
Wallets == {1, 2}

\* The wallets whose adapter offers signTransaction (useWallet() gives
\* undefined for the others).
Signers == Wallets

\* What useWallet() can hold when the form is used: no wallet (0), a wallet
\* that can sign, or a wallet (3) whose adapter cannot.
FormWallets == Wallets \cup {0, 3}

\* The runs of fetchTokenBalances in flight at a time.
FetchRuns == {1}

\* The error state of TokenBalances when no error is set (null).
NoError == "null"

\* A run of fetchTokenBalances.  publicKey is the wallet of the render that
\* started it; lastRequestTime is the field of the rateLimiter object of
\* that render, and wakeAt the time its pending timer is set for; tier is
\* the pass the run is in; mints, answers, scan, native, outer, reported and
\* error are history: what each token's mint lookup and account lookup
\* gave, how the scan of all accounts and the native fallback went, whether
\* the outer handler was reached, and what the run reported and set as
\* error.
NoRun == [pc |-> "idle", publicKey |-> 0, tier |-> "none", ep |-> 1,
          lastRequestTime |-> 0, wakeAt |-> 0,
          balances |-> <<>>, mints |-> <<>>, answers |-> <<>>,
          scan |-> "none", native |-> "none", outer |-> FALSE,
          reported |-> <<>>, error |-> NoError]

\* TokenBalances: tokenBalances, isLoading and error are its React state;
\* delivered is the history of the calls of onBalanceUpdate.
NoBal == [tokenBalances |-> <<>>, isLoading |-> FALSE, error |-> NoError,
          delivered |-> <<>>, fetches |-> 0,
          run |-> [r \in FetchRuns |-> NoRun]]

\* MintForm: amount, isMinting and tokenBalances are its React state;
\* inFlight counts the mintIrmaToken calls that have not returned, passed is
\* the history of the pre-checks passed, updates counts the
\* handleBalanceUpdate calls, calls the handleMint calls and warnings the
\* warnings shown, and owner is the wallet whose fetchTokenBalances run
\* delivered the snapshot.
NoForm == [amount |-> 1000, isMinting |-> FALSE, tokenBalances |-> <<>>,
           inFlight |-> 0, passed |-> <<>>, updates |-> 0,
           calls |-> 0, warnings |-> 0, owner |-> 0]

\* The invocations of mintIrmaToken in flight at a time.
MintProcs == {1}

\* The amounts mintIrmaToken is called with: the form's default of 1000
\* tokens, and a negative one (the function itself accepts any number).
Amounts == {-5, 1000}

----------------------------------------------------------------------------
(* The wall clock: non-decreasing, and free to run past any timer. *)

TickUpTo(ticks) ==
  /\ now < StartTime + ticks * TickMs
  /\ now' = now + TickMs
  /\ UNCHANGED <<lastRequestTime, thr, retLog, overlapped, mintVars, q, lots,
               uiVars>>

----------------------------------------------------------------------------
(* RateLimiter.throttle *)

NoThrottle == [pc |-> "idle", seen |-> 0, start |-> 0, wakeAt |-> 0]

\* A slip: the time already spent is waited for, not the remainder.
WaitTimeSpent(timeSinceLastRequest) == timeSinceLastRequest

\* waitTime = RATE_LIMIT_DELAY - timeSinceLastRequest
WaitTime(timeSinceLastRequest) == RATE_LIMIT_DELAY - timeSinceLastRequest

\* A slip: the time read on entry is stored, not the time of the return.
StampOnEntry(c) == IF thr[c].pc = "waiting" THEN thr[c].start ELSE now

\* The value the final statement stores: this.lastRequestTime = Date.now()
StampOnReturn(c) == now

ThrottleReturn(c, call) ==
  /\ lastRequestTime' = StampOnReturn(c)
  /\ retLog' = Append(retLog, [c |-> c, t |-> now, seen |-> call.seen,
                               start |-> call.start])

\* The call, up to the await of the timer or, with nothing to wait for, to
\* the return.
ThrottleEnter(c) ==
  /\ thr[c].pc = "idle"
  /\ overlapped' = (overlapped \/ \E d \in DOMAIN thr : thr[d].pc = "waiting")
  /\ LET timeSinceLastRequest == now - lastRequestTime
         call == [pc |-> "waiting", seen |-> lastRequestTime, start |-> now,
                  wakeAt |-> now + WaitTime(timeSinceLastRequest)]
     IN IF timeSinceLastRequest < RATE_LIMIT_DELAY
          THEN /\ thr' = [thr EXCEPT ![c] = call]
               /\ UNCHANGED <<lastRequestTime, retLog>>
          ELSE /\ ThrottleReturn(c, call)
               /\ UNCHANGED thr
  /\ UNCHANGED now

\* setTimeout fires at or after its delay; the call stores the time and
\* returns.
ThrottleWake(c) ==
  /\ thr[c].pc = "waiting"
  /\ now >= thr[c].wakeAt
  /\ ThrottleReturn(c, thr[c])
  /\ thr' = [thr EXCEPT ![c] = NoThrottle]
  /\ UNCHANGED <<now, overlapped>>

----------------------------------------------------------------------------
(* The rate limiter on its own: callers that call throttle() again and     *)
(* again, one after the other or overlapping.                              *)

InitRL ==
  /\ now = StartTime
  /\ lastRequestTime = 0
  /\ thr = [c \in Callers |-> NoThrottle]
  /\ retLog = <<>>
  /\ overlapped = FALSE
  /\ m = <<>>
  /\ calls = 0
  /\ prevConn = 0
  /\ q = "none"
  /\ wallet = 0
  /\ form = NoForm
  /\ bal = NoBal
  /\ lots = NoLots

Started == Len(retLog) + Cardinality({c \in Callers : thr[c].pc = "waiting"})

CallThrottle(c) ==
  /\ Started < MaxReturns
  /\ ThrottleEnter(c)
  /\ UNCHANGED <<mintVars, q, lots, uiVars>>

WakeThrottle(c) ==
  /\ ThrottleWake(c)
  /\ UNCHANGED <<mintVars, q, lots, uiVars>>

NextRL ==
  \/ TickUpTo(MaxTicks)
  \/ \E c \in Callers : CallThrottle(c)
  \/ \E c \in Callers : WakeThrottle(c)

SpecRL == InitRL /\ [][NextRL]_vars

----------------------------------------------------------------------------
(* Rate limiter claims, checked under SpecRL *)

Gap(i) == retLog[i + 1].t - retLog[i].t

\* C5: when the throttle() calls on one limiter do not overlap (each begins
\* after the previous one returned) and the clock never runs backwards, the
\* return times of any two consecutive calls are at least RATE_LIMIT_DELAY
\* (1000 ms) apart.
C5_SequentialSeparation ==
  ~overlapped =>
    \A i \in 1..(Len(retLog) - 1) : Gap(i) >= RATE_LIMIT_DELAY

\* Two calls one after the other, the second of which had to wait.
C5_Witness ==
  /\ ~overlapped
  /\ Len(retLog) >= 2
  /\ retLog[2].start - retLog[1].t < RATE_LIMIT_DELAY
  /\ retLog[2].start < retLog[2].t

\* C6: the separation is lost under overlapping callers.  A call returns no
\* earlier than RATE_LIMIT_DELAY after the lastRequestTime it read, and that
\* is all it guarantees: two consecutive returns less than 1000 ms apart
\* happen (the witness), and only when the later call began, and read
\* lastRequestTime, before the earlier call had written it.
C6_RaceByStaleRead ==
  \A i \in 1..(Len(retLog) - 1) :
    Gap(i) < RATE_LIMIT_DELAY =>
      /\ retLog[i + 1].seen < retLog[i].t
      /\ retLog[i + 1].start <= retLog[i].t
      /\ retLog[i + 1].t >= retLog[i + 1].seen + RATE_LIMIT_DELAY

\* The second call read lastRequestTime while the first was suspended in its
\* wait, and both returned less than 1000 ms apart.
C6_Witness ==
  \E i \in 1..(Len(retLog) - 1) :
    /\ retLog[i].start < retLog[i].t
    /\ retLog[i + 1].start >= retLog[i].start
    /\ retLog[i + 1].start < retLog[i].t
    /\ retLog[i + 1].seen = retLog[i].seen
    /\ retLog[i + 1].c # retLog[i].c
    /\ Gap(i) < RATE_LIMIT_DELAY

----------------------------------------------------------------------------
(* getWorkingConnection *)

Endpoints == <<"https://api.devnet.solana.com",
               "https://solana-devnet.rpc.extrnode.com",
               "https://ssc-dao.genesysgo.net">>

\* A slip: a selector that remembers the endpoint that answered last time.
GwcStartCached == IF prevConn # 0 THEN prevConn ELSE 1

\* for (const endpoint of endpoints): every call begins at the first one
GwcStart == 1

\* A slip: the endpoint that failed is tried again.
GwcRetry(ep) == ep

\* continue: the loop goes on to the next endpoint of the list
GwcNext(ep) == ep + 1

\* A slip: the loop gives up one endpoint early.
GwcExhaustedEarly(ep) == ep >= Len(Endpoints) - 1

\* The loop has run off the end of the list.
GwcExhausted(ep) == ep = Len(Endpoints)

----------------------------------------------------------------------------
(* mintIrmaToken and createOpenBookV2OrderInstruction *)

NullMarket == [isNull |-> TRUE, baseLotSize |-> 0, quoteLotSize |-> 0]

\* What client.program.account.market.fetch may give: a market with its lot
\* sizes, or nothing.
Markets ==
  {[isNull |-> FALSE, baseLotSize |-> b, quoteLotSize |-> k] :
     b \in 0..MaxLot, k \in 0..MaxLot} \cup {NullMarket}

NoParams == [side |-> "none", price |-> 0, size |-> 0]
NoArgs == [side |-> "none", priceLots |-> 0, maxBaseLots |-> 0,
           maxQuoteLots |-> 0, clientOrderId |-> 0]

Fresh(a) ==
  [pc |-> "throttle", amount |-> a, ep |-> GwcStart, probes |-> <<>>,
   conn |-> 0, acct |-> "none", orderParams |-> NoParams,
   market |-> NullMarket, orderArgs |-> NoArgs, sim |-> "none",
   signCalls |-> 0, sendCalls |-> 0, orderResult |-> "none",
   result |-> "none", err |-> "", stages |-> <<"Idle", "Throttling">>]

Idle == [Fresh(0) EXCEPT !.pc = "idle", !.stages = <<"Idle">>]

Max(a, b) == IF a >= b THEN a ELSE b

\* usdcAmount / amount, then floor(pricePerToken * 1000000): 1.04 USDC in
\* micro-units for every whole amount other than 0.
PricePerTokenMicro(a) == (a * 104 * (MICRO \div 100)) \div a
\* The side of the order request mintIrmaToken builds: { ask: {} } in
\* src/lib/mint.ts, { bid: {} } in src/unnamed/part_000.
MintOrderSide == "ask"

MintOrderSideVariant == "bid"

\* The side of the order arguments handed to placeOrderIx: both variants
\* write { ask: {} } in place and do not read the side of the request.
OrderArgsSide(requestSide) == "ask"

OrderArgsSideVariant(requestSide) == "ask"

\* A slip: the size is left in whole tokens.
MintOrderParamsWhole(a) ==
  [side |-> MintOrderSide, price |-> PricePerTokenMicro(a), size |-> a]

\* The order request mintIrmaToken builds.
MintOrderParams(a) ==
  [side |-> MintOrderSide, price |-> PricePerTokenMicro(a),
   size |-> a * MICRO]

\* A slip: the division by 1000000 is left out.
PriceLotsUnscaled(price, baseLotSize, quoteLotSize) ==
  Max(1, (price * quoteLotSize) \div baseLotSize)

\* priceLots = max(1, floor(price * quoteLotSize / (baseLotSize * 1000000)))
PriceLots(price, baseLotSize, quoteLotSize) ==
  Max(1, (price * quoteLotSize) \div (baseLotSize * MICRO))

\* The other variant of the function (src/unnamed/part_000):
\* priceLots = floor(price * baseLotSize / quoteLotSize), with no lower limit.
PriceLotsVariant(price, baseLotSize, quoteLotSize) ==
  (price * baseLotSize) \div quoteLotSize

\* A slip: the size is rounded up to the next whole lot.
MaxBaseLotsRoundedUp(size, baseLotSize) ==
  (size + baseLotSize - 1) \div baseLotSize

\* maxBaseLots = floor(size / baseLotSize)
MaxBaseLots(size, baseLotSize) == size \div baseLotSize

\* <<quotient, remainder>> of a * b by c, for a, b >= 0 and c > 0.  The
\* product is taken one binary digit of b at a time, so that no intermediate
\* value leaves 31 bits.
RECURSIVE MulDivMod(_, _, _)
MulDivMod(a, b, c) ==
  IF b = 0
    THEN <<0, 0>>
    ELSE LET h == MulDivMod(a, b \div 2, c)
             t == 2 * h[2] + a * (b % 2)
         IN <<2 * h[1] + t \div c, t % c>>

\* Math.floor(a * b / c) for a >= 0, c > 0 and b of either sign.
MulDivFloor(a, b, c) ==
  IF b >= 0
    THEN MulDivMod(a, b, c)[1]
    ELSE LET h == MulDivMod(a, 0 - b, c)
         IN IF h[2] = 0 THEN 0 - h[1] ELSE 0 - (h[1] + 1)

\* A slip: the 10% margin for fees is left out.
MaxQuoteLotsNoMargin(price, size, quoteLotSize) ==
  MulDivFloor(price * 10, size, 10 * MICRO * quoteLotSize)

\* maxQuoteLotsIncludingFees =
\*   floor(((price * size * 1.1) / 1000000) / quoteLotSize).
\* The code computes it in doubles; on the prices and sizes of this model
\* the doubles give the floor of the exact quotient, with 1.1 as 11/10.
MaxQuoteLots(price, size, quoteLotSize) ==
  MulDivFloor(price * 11, size, 10 * MICRO * quoteLotSize)

\* With a price and a size that are not zero, a lot size of zero makes one
\* of the quotients infinite, and new BN of an infinity throws.
LotsThrow(mk) == mk.baseLotSize = 0 \/ mk.quoteLotSize = 0

OrderArgs(params, mk, t) ==
  [side |-> OrderArgsSide(params.side),
   priceLots |-> PriceLots(params.price, mk.baseLotSize, mk.quoteLotSize),
   maxBaseLots |-> MaxBaseLots(params.size, mk.baseLotSize),
   maxQuoteLots |-> MaxQuoteLots(params.price, params.size, mk.quoteLotSize),
   clientOrderId |-> t]

\* A slip: the outer handler lets the error go on to the caller.
MintRethrow(e) == "threw"

\* catch (error) { ...; return false; }
MintCatch(e) == "false"

\* A failure caught by mintIrmaToken's own handler.
Failed(r, e) ==
  [r EXCEPT !.pc = "done", !.result = MintCatch(e), !.err = e,
            !.stages = Append(@, "Failed")]

\* A failure inside createOpenBookV2OrderInstruction: its handler returns
\* {success: false}, and mintIrmaToken throws on that into its own handler.
CreateFailed(r, e) == Failed([r EXCEPT !.orderResult = "fail"], e)

\* mintIrmaToken is called; it runs into rateLimiter.throttle().
Invoke(p, a) ==
  /\ m[p].pc \in {"idle", "done"}
  /\ calls < MaxCalls
  /\ calls' = calls + 1
  /\ ThrottleEnter(p)
  /\ m' = [m EXCEPT ![p] =
             [Fresh(a) EXCEPT !.pc = IF thr'[p].pc = "waiting"
                                       THEN "throttle" ELSE "gwc"]]
  /\ UNCHANGED <<prevConn, q, lots, uiVars>>

\* The throttle's timer fires; getWorkingConnection starts.
ThrottleDone(p) ==
  /\ m[p].pc = "throttle"
  /\ ThrottleWake(p)
  /\ m' = [m EXCEPT ![p].pc = "gwc"]
  /\ UNCHANGED <<calls, prevConn, q, lots, uiVars>>

\* getWorkingConnection: the getSlot probe of one endpoint answers or fails.
Probe(p) ==
  /\ m[p].pc = "gwc"
  /\ \E ok \in BOOLEAN :
       LET r == [m[p] EXCEPT
                   !.probes = Append(@, [ep |-> m[p].ep, ok |-> ok])]
       IN \/ /\ ok
             /\ m' = [m EXCEPT ![p] =
                        [r EXCEPT !.conn = m[p].ep, !.pc = "acctinfo",
                           !.stages = Append(@, "ConnectionAcquired")]]
             /\ prevConn' = m[p].ep
          \/ /\ ~ok
             /\ ~GwcExhausted(m[p].ep)
             /\ m' = [m EXCEPT ![p] = [r EXCEPT !.ep = GwcNext(@)]]
             /\ UNCHANGED prevConn
          \/ /\ ~ok
             /\ GwcExhausted(m[p].ep)
             /\ m' = [m EXCEPT ![p] = Failed(r, "All RPC endpoints failed")]
             /\ prevConn' = 0
  /\ UNCHANGED <<rlVars, calls, q, lots, uiVars>>

\* connection.getAccountInfo(marketAddress); then the order request is built
\* and createOpenBookV2OrderInstruction runs up to the market fetch.
GetAccountInfo(p) ==
  /\ m[p].pc = "acctinfo"
  /\ \/ \E found \in {"exists", "missing"} :
          m' = [m EXCEPT ![p].acct = found,
                         ![p].orderParams = MintOrderParams(m[p].amount),
                         ![p].pc = "fetch"]
     \/ m' = [m EXCEPT ![p] = Failed(@, "Invalid market address")]
  /\ UNCHANGED <<rlVars, calls, prevConn, q, lots, uiVars>>

\* client.program.account.market.fetch(marketAddress)
FetchMarket(p) ==
  /\ m[p].pc = "fetch"
  /\ \/ \E mk \in Markets :
          m' = [m EXCEPT ![p].market = mk, ![p].pc = "openorders",
                         ![p].stages = IF mk.isNull THEN @
                                       ELSE Append(@, "MarketLoaded")]
     \/ m' = [m EXCEPT ![p] = CreateFailed(@, "market fetch failed")]
  /\ UNCHANGED <<rlVars, calls, prevConn, q, lots, uiVars>>

\* client.createOpenOrdersIx(...); then the market check, the lot values and
\* the order arguments, up to client.placeOrderIx.
CreateOpenOrders(p) ==
  /\ m[p].pc = "openorders"
  /\ \/ /\ ~m[p].market.isNull
        /\ ~LotsThrow(m[p].market)
        /\ m' = [m EXCEPT
                   ![p].orderArgs = OrderArgs(m[p].orderParams, m[p].market, now),
                   ![p].pc = "placeorder",
                   ![p].stages = Append(@, "ParametersComputed")]
     \/ /\ m[p].market.isNull
        /\ m' = [m EXCEPT ![p] = CreateFailed(@, "Market not found")]
     \/ /\ ~m[p].market.isNull
        /\ LotsThrow(m[p].market)
        /\ m' = [m EXCEPT ![p] = CreateFailed(@, "lot computation failed")]
     \/ m' = [m EXCEPT ![p] = CreateFailed(@, "open orders failed")]
  /\ UNCHANGED <<rlVars, calls, prevConn, q, lots, uiVars>>

\* client.placeOrderIx(...)
PlaceOrderIx(p) ==
  /\ m[p].pc = "placeorder"
  /\ \/ m' = [m EXCEPT ![p].pc = "blockhash"]
     \/ m' = [m EXCEPT ![p] = CreateFailed(@, "place order failed")]
  /\ UNCHANGED <<rlVars, calls, prevConn, q, lots, uiVars>>

\* connection.getLatestBlockhash() inside createOpenBookV2OrderInstruction
GetBlockhash(p) ==
  /\ m[p].pc = "blockhash"
  /\ \/ m' = [m EXCEPT ![p].pc = "simulate"]
     \/ m' = [m EXCEPT ![p] = CreateFailed(@, "blockhash failed")]
  /\ UNCHANGED <<rlVars, calls, prevConn, q, lots, uiVars>>

\* A slip: the transaction is serialized and sent as it is, unsigned.
AfterSimulateUnsigned == "send"

\* After the simulation: const signedTx = await mockWallet.signTransaction(tx)
AfterSimulate == "sign"

\* A slip: the result of the simulation is looked at, and an error result
\* ends the invocation.
SimulatedChecked(r, res) ==
  IF res = "err"
    THEN CreateFailed([r EXCEPT !.sim = res], "simulation failed")
    ELSE [r EXCEPT !.sim = res, !.pc = AfterSimulate]

\* console.log(await connection.simulateTransaction(tx)): the result is
\* logged, whatever it is.
Simulated(r, res) == [r EXCEPT !.sim = res, !.pc = AfterSimulate]

\* connection.simulateTransaction(tx) answers, with or without an error in
\* its result, or throws.
Simulate(p) ==
  /\ m[p].pc = "simulate"
  /\ \/ \E res \in {"ok", "err"} :
          m' = [m EXCEPT ![p] = Simulated(@, res)]
     \/ m' = [m EXCEPT ![p] = CreateFailed(@, "simulation failed")]
  /\ UNCHANGED <<rlVars, calls, prevConn, q, lots, uiVars>>

\* A slip: a rejected signature is only logged and the transaction goes on.
SignRejectedIgnored(r) == [r EXCEPT !.err = "signing rejected", !.pc = "send"]

\* The signing callback rejects: the handler of
\* createOpenBookV2OrderInstruction takes over.
SignRejected(r) == CreateFailed(r, "signing rejected")

\* mockWallet.signTransaction(tx)
Sign(p) ==
  /\ m[p].pc = "sign"
  /\ LET r == [m[p] EXCEPT !.signCalls = @ + 1]
     IN \/ m' = [m EXCEPT ![p] =
                   [r EXCEPT !.pc = "send", !.stages = Append(@, "Signed")]]
        \/ m' = [m EXCEPT ![p] = SignRejected(r)]
  /\ UNCHANGED <<rlVars, calls, prevConn, q, lots, uiVars>>

\* A slip: a failed broadcast is sent again.
SendRetried(r) == [r EXCEPT !.pc = "send"]

\* sendRawTransaction throws: the handler returns {success: false}.
SendFailed(r) == CreateFailed(r, "broadcast failed")

\* connection.sendRawTransaction(signedTx.serialize()); on success
\* createOpenBookV2OrderInstruction returns {success: true} and mintIrmaToken
\* asks for the latest blockhash again.
Send(p) ==
  /\ m[p].pc = "send"
  /\ LET r == [m[p] EXCEPT !.sendCalls = @ + 1]
     IN \/ m' = [m EXCEPT ![p] =
                   [r EXCEPT !.pc = "blockhash2", !.orderResult = "ok",
                             !.stages = Append(@, "Broadcast")]]
        \/ m' = [m EXCEPT ![p] = SendFailed(r)]
  /\ UNCHANGED <<rlVars, calls, prevConn, q, lots, uiVars>>

\* connection.getLatestBlockhash() in mintIrmaToken, then return true.
FinalBlockhash(p) ==
  /\ m[p].pc = "blockhash2"
  /\ \/ m' = [m EXCEPT ![p].pc = "done", ![p].result = "true",
                       ![p].stages = Append(@, "Success")]
     \/ m' = [m EXCEPT ![p] = Failed(@, "final blockhash failed")]
  /\ UNCHANGED <<rlVars, calls, prevConn, q, lots, uiVars>>

----------------------------------------------------------------------------
(* getMarketInfo, getMarketPrice, getOrderStatus: each a try block around   *)
(* a constant, with a handler that returns as well.                        *)

\* catch (error) { ...; return <fallback>; }
QueryCatch(fallback) == fallback

GetMarketInfo ==
  /\ \/ q' = "marketInfo"
     \/ q' = QueryCatch("null")
  /\ UNCHANGED <<rlVars, mintVars, lots, uiVars>>

GetMarketPrice ==
  /\ \/ q' = "price 1.04"
     \/ q' = QueryCatch("price 1.04")
  /\ UNCHANGED <<rlVars, mintVars, lots, uiVars>>

GetOrderStatus ==
  /\ \/ q' = "status pending"
     \/ q' = QueryCatch("status error")
  /\ UNCHANGED <<rlVars, mintVars, lots, uiVars>>

----------------------------------------------------------------------------
(* The order submitter: mintIrmaToken called again and again. *)

Init ==
  /\ now = StartTime
  /\ lastRequestTime = 0
  /\ thr = [p \in MintProcs |-> NoThrottle]
  /\ retLog = <<>>
  /\ overlapped = FALSE
  /\ prevConn = 0
  /\ m = [p \in MintProcs |-> Idle]
  /\ calls = 0
  /\ q = "none"
  /\ wallet = 0
  /\ form = NoForm
  /\ bal = NoBal
  /\ lots = NoLots

Next ==
  \/ TickUpTo(MintTicks)
  \/ \E p \in MintProcs, a \in Amounts : Invoke(p, a)
  \/ \E p \in MintProcs : ThrottleDone(p)
  \/ \E p \in MintProcs : Probe(p)
  \/ \E p \in MintProcs : GetAccountInfo(p)
  \/ \E p \in MintProcs : FetchMarket(p)
  \/ \E p \in MintProcs : CreateOpenOrders(p)
  \/ \E p \in MintProcs : PlaceOrderIx(p)
  \/ \E p \in MintProcs : GetBlockhash(p)
  \/ \E p \in MintProcs : Simulate(p)
  \/ \E p \in MintProcs : Sign(p)
  \/ \E p \in MintProcs : Send(p)
  \/ \E p \in MintProcs : FinalBlockhash(p)
  \/ GetMarketInfo
  \/ GetMarketPrice
  \/ GetOrderStatus

Spec == Init /\ [][Next]_vars

----------------------------------------------------------------------------
(* Order submitter and connection selector claims, checked under Spec *)

StageOrder == <<"Idle", "Throttling", "ConnectionAcquired", "MarketLoaded",
                "ParametersComputed", "Signed", "Broadcast">>

Ended(r) == r.stages[Len(r.stages)] \in {"Success", "Failed"}

\* The stages passed, without the final Success or Failed.
Passed(r) ==
  IF Ended(r) THEN SubSeq(r.stages, 1, Len(r.stages) - 1) ELSE r.stages

IsPrefix(s, t) == Len(s) <= Len(t) /\ s = SubSeq(t, 1, Len(s))

InStages(r, st) == \E i \in 1..Len(r.stages) : r.stages[i] = st

\* The failures of a step that comes before the broadcast.
CreateFailures ==
  {"market fetch failed", "Market not found", "lot computation failed",
   "open orders failed", "place order failed", "blockhash failed",
   "simulation failed", "signing rejected"}

PreBroadcastFailures ==
  {"All RPC endpoints failed", "Invalid market address"} \cup CreateFailures

\* C1: within one invocation of mintIrmaToken, sendRawTransaction is called
\* at most once (a failed broadcast is not tried again), and exactly once in
\* every invocation that returns true.
C1_BroadcastCount ==
  \A p \in DOMAIN m :
    /\ m[p].sendCalls <= 1
    /\ m[p].result = "true" => m[p].sendCalls = 1

\* A second invocation, begun anew after the first, returned true with its
\* one broadcast.
C1_Witness ==
  \E p \in DOMAIN m :
    calls = 2 /\ m[p].result = "true" /\ m[p].sendCalls = 1

\* C2: when a step before the broadcast fails, createOpenBookV2OrderInstruction
\* (when it was reached) yields success = false, mintIrmaToken returns
\* false, and sendRawTransaction is not called in that invocation.
C2_FailureBeforeBroadcast ==
  \A p \in DOMAIN m :
    m[p].err \in PreBroadcastFailures =>
      /\ m[p].sendCalls = 0
      /\ m[p].pc = "done"
      /\ m[p].result = "false"
      /\ m[p].orderResult =
           IF m[p].err \in CreateFailures THEN "fail" ELSE "none"

\* The signing callback rejected.
C2_Witness ==
  \E p \in DOMAIN m :
    /\ m[p].err = "signing rejected"
    /\ m[p].signCalls = 1
    /\ m[p].result = "false"

\* C3: an invocation passes its stages in the order Idle, Throttling,
\* ConnectionAcquired, MarketLoaded, ParametersComputed, Signed, Broadcast
\* and ends in Success or Failed; Success only after all of them, the
\* signing callback only after the lot parameters were computed, and the
\* broadcast only after the signing callback returned.
C3_StageOrder ==
  \A p \in DOMAIN m :
    /\ IsPrefix(Passed(m[p]), StageOrder)
    /\ Ended(m[p]) <=> m[p].pc = "done"
    /\ InStages(m[p], "Success") => Passed(m[p]) = StageOrder
    /\ m[p].signCalls > 0 => InStages(m[p], "ParametersComputed")
    /\ m[p].sendCalls > 0 => InStages(m[p], "Signed")

\* A run through every stage to Success.
C3_Witness ==
  \E p \in DOMAIN m : m[p].stages = StageOrder \o <<"Success">>

\* C4: mintIrmaToken ends by returning a boolean, and getMarketInfo,
\* getMarketPrice and getOrderStatus end by returning a value or null,
\* whatever fails inside them; none lets an exception reach its caller.
C4_NeverThrows ==
  /\ \A p \in DOMAIN m :
       /\ m[p].result \in {"none", "true", "false"}
       /\ m[p].pc = "done" <=> m[p].result \in {"true", "false"}
  /\ q # "threw"

\* A collaborator failed inside mintIrmaToken and inside a query function,
\* and both returned.
C4_Witness ==
  /\ \E p \in DOMAIN m : m[p].err # "" /\ m[p].result = "false"
  /\ q = "null"

\* C7: getWorkingConnection probes the endpoints in list order, each at most
\* once, stops at the first whose getSlot answers and returns a connection
\* to it; no endpoint after that one is probed.
C7_FirstWorkingEndpoint ==
  \A p \in DOMAIN m :
    LET pr == m[p].probes
    IN /\ Len(pr) <= Len(Endpoints)
       /\ \A i \in 1..Len(pr) :
            /\ pr[i].ep = i
            /\ i < Len(pr) => ~pr[i].ok
       /\ m[p].conn # 0 =>
            /\ Len(pr) = m[p].conn
            /\ pr[Len(pr)].ok

\* Endpoint 1 failed, endpoint 2 answered: the connection is to endpoint 2
\* and endpoint 3 was not probed.
C7_Witness ==
  \E p \in DOMAIN m :
    /\ m[p].conn = 2
    /\ m[p].probes = <<[ep |-> 1, ok |-> FALSE], [ep |-> 2, ok |-> TRUE]>>

AllProbesFailed(r) ==
  /\ \A e \in 1..Len(Endpoints) : \E i \in 1..Len(r.probes) : r.probes[i].ep = e
  /\ \A i \in 1..Len(r.probes) : ~r.probes[i].ok

\* C8: when the probe of every endpoint fails, getWorkingConnection fails
\* with "All RPC endpoints failed" and gives no connection; and it fails so
\* only after each endpoint was probed exactly once.
C8_AllEndpointsFailed ==
  \A p \in DOMAIN m :
    /\ AllProbesFailed(m[p]) =>
         m[p].err = "All RPC endpoints failed" /\ m[p].conn = 0
    /\ m[p].err = "All RPC endpoints failed" =>
         /\ AllProbesFailed(m[p])
         /\ Len(m[p].probes) = Len(Endpoints)

C8_Witness ==
  \E p \in DOMAIN m :
    /\ m[p].err = "All RPC endpoints failed"
    /\ Len(m[p].probes) = 3
    /\ m[p].conn = 0

\* C9: getWorkingConnection keeps nothing from one call to the next: every
\* invocation begins its probing at the first endpoint of the list, whatever
\* the previous invocation found.
C9_ProbingRestarts ==
  \A p \in DOMAIN m :
    /\ m[p].pc = "gwc" /\ m[p].probes = <<>> => m[p].ep = 1
    /\ m[p].probes # <<>> => m[p].probes[1].ep = 1

\* The previous invocation found endpoint 1 down and endpoint 2 up; this one
\* has probed endpoint 1 again.
C9_Witness ==
  \E p \in DOMAIN m :
    /\ calls = 2
    /\ prevConn = 2
    /\ m[p].probes = <<[ep |-> 1, ok |-> FALSE]>>

\* The regression fixture: 1000 tokens on a market with both lot sizes 1.
Fixture(r) ==
  /\ InStages(r, "ParametersComputed")
  /\ r.amount = 1000
  /\ r.market.baseLotSize = 1
  /\ r.market.quoteLotSize = 1

\* C14, as stated: for 1000 tokens at 1.04 on a market with a base lot size
\* and a quote lot size of 1, the order is built with priceLots = 1,040,000
\* and maxBaseLots = 1,000,000,000.
C14_Fixture ==
  \A p \in MintProcs :
    Fixture(m[p]) =>
      /\ m[p].orderArgs.priceLots = 1040000
      /\ m[p].orderArgs.maxBaseLots = 1000000000

\* C14, amended: on that fixture the order is built with priceLots = 1
\* (floor(1,040,000 * 1 / (1 * 1,000,000))) and maxBaseLots = 1,000,000,000.
C14_FixtureAsComputed ==
  \A p \in MintProcs :
    Fixture(m[p]) =>
      /\ m[p].orderArgs.priceLots = 1
      /\ m[p].orderArgs.maxBaseLots = 1000000000

C14_Witness ==
  \E p \in MintProcs :
    /\ Fixture(m[p])
    /\ m[p].orderParams.price = 1040000
    /\ m[p].orderArgs.priceLots = 1
    /\ m[p].orderArgs.maxBaseLots = 1000000000

\* C15: an invocation with a negative amount never gets as far as order
\* arguments (the lot computation is to fail with an invalid-order-parameters
\* error, so no order with a negative lot field is handed to the DEX
\* client), is never signed or broadcast, and returns false.
C15_NegativeLotsRejected ==
  \A p \in MintProcs :
    m[p].amount < 0 =>
      /\ m[p].orderArgs = NoArgs
      /\ m[p].signCalls = 0
      /\ m[p].sendCalls = 0
      /\ m[p].pc = "done" => m[p].result = "false"

\* The market fetch has answered, and with nothing.
FetchedNothing(r) ==
  /\ r.acct # "none"
  /\ r.pc # "fetch"
  /\ r.err # "market fetch failed"
  /\ r.market.isNull

\* C16: when the market account was reported missing or the market fetch
\* yielded nothing, no lot parameter is computed, the signing callback is not
\* invoked, and the invocation ends with false and a market-not-found error
\* (the fetch's own failure on a missing account counts as one).
C16_MarketNotFound ==
  \A p \in MintProcs :
    (m[p].acct = "missing" \/ FetchedNothing(m[p])) =>
      /\ ~InStages(m[p], "ParametersComputed")
      /\ m[p].signCalls = 0
      /\ m[p].pc = "done" =>
           /\ m[p].result = "false"
           /\ m[p].err \in {"Market not found", "market fetch failed"}

\* C24: mintIrmaToken returns false only when no transaction was broadcast
\* in that invocation: once sendRawTransaction has answered, no later step
\* (such as the second getLatestBlockhash) turns the result into false.
C24_FalseMeansNoBroadcast ==
  \A p \in DOMAIN m :
    m[p].result = "false" =>
      /\ m[p].orderResult # "ok"
      /\ ~InStages(m[p], "Broadcast")

\* C28: simulateTransaction is called after the blockhash was fetched and
\* before the signing callback; a simulation that answers with an error
\* result does not stop the invocation, which goes on to sign and to
\* broadcast; only a simulateTransaction that throws ends it, before any
\* signature.
C28_SimulationDoesNotGate ==
  \A p \in DOMAIN m :
    /\ m[p].sim # "none" => m[p].err # "blockhash failed"
    /\ m[p].signCalls > 0 => m[p].sim \in {"ok", "err"}
    /\ m[p].sim = "err" =>
         /\ m[p].err \in {"", "signing rejected", "broadcast failed",
                          "final blockhash failed"}
         /\ m[p].pc \in {"sign", "send", "blockhash2", "done"}
         /\ m[p].pc = "done" => m[p].signCalls = 1
    /\ m[p].err = "simulation failed" =>
         /\ m[p].sim = "none"
         /\ m[p].signCalls = 0
         /\ m[p].sendCalls = 0
         /\ m[p].result = "false"

\* The simulation answered with an error result and the transaction was
\* signed and broadcast all the same; the invocation returned true.
C28_Witness ==
  \E p \in DOMAIN m :
    /\ m[p].sim = "err"
    /\ m[p].signCalls = 1
    /\ m[p].sendCalls = 1
    /\ m[p].orderResult = "ok"
    /\ m[p].result = "true"


----------------------------------------------------------------------------
(* The order parameter calculator on its own: the lot values that          *)
(* createOpenBookV2OrderInstruction computes, for an order request and a    *)
(* market with positive lot sizes.                                         *)

\* Prices in micro-units of the quote token; 1040000 is mintIrmaToken's own.
\* With the largest size below, the largest price keeps the quote total, and
\* so every lot count, within 31 bits.
LotPrices == {0, 1, 999999, 1000000, 1040000, 1500000, 1900000}

\* Sizes in micro-units of the base token.
LotSizesMicro == {0, 1, 999999, 1000000, 2500000, 1000000000}

InitLots ==
  /\ now = StartTime
  /\ lastRequestTime = 0
  /\ thr = <<>>
  /\ retLog = <<>>
  /\ overlapped = FALSE
  /\ m = <<>>
  /\ calls = 0
  /\ prevConn = 0
  /\ q = "none"
  /\ wallet = 0
  /\ form = NoForm
  /\ bal = NoBal
  /\ lots \in {[NoLots EXCEPT !.price = pr, !.size = sz,
                              !.baseLotSize = b, !.quoteLotSize = k,
                              !.requestSide = MintOrderSide,
                              !.variantRequestSide = MintOrderSideVariant] :
                 pr \in LotPrices, sz \in LotSizesMicro,
                 b \in 1..MaxLotSize, k \in 1..MaxLotSize}

\* Lines 127-159 of createOpenBookV2OrderInstruction on these inputs, and the
\* priceLots of the other variant (src/unnamed/part_000, lines 124-126).
ComputeLots ==
  /\ ~lots.done
  /\ lots' = [lots EXCEPT
                !.done = TRUE,
                !.priceLots = PriceLots(lots.price, lots.baseLotSize,
                                        lots.quoteLotSize),
                !.maxBaseLots = MaxBaseLots(lots.size, lots.baseLotSize),
                !.maxQuoteLots = MaxQuoteLots(lots.price, lots.size,
                                              lots.quoteLotSize),
                !.variantPriceLots =
                  PriceLotsVariant(lots.price, lots.baseLotSize,
                                   lots.quoteLotSize),
                !.side = OrderArgsSide(lots.requestSide),
                !.variantSide = OrderArgsSideVariant(lots.variantRequestSide)]
  /\ UNCHANGED <<rlVars, mintVars, q, uiVars>>

NextLots == ComputeLots

SpecLots == InitLots /\ [][NextLots]_vars

----------------------------------------------------------------------------
(* Order parameter calculator claims, checked under SpecLots *)

\* C10, as stated: for every price in micro-units of the quote token and
\* every positive base and quote lot size, the priceLots that
\* createOpenBookV2OrderInstruction builds equals
\* max(1, floor(price * quoteLotSize / baseLotSize)).
C10_PriceLotsFormula ==
  lots.done =>
    lots.priceLots =
      Max(1, (lots.price * lots.quoteLotSize) \div lots.baseLotSize)

\* C10, amended: priceLots is the floor of
\* price * quoteLotSize / (baseLotSize * 1000000), and 1 when that floor is
\* below 1.  The floor is stated by its bounds: priceLots whole lots of
\* baseLotSize * 1000000 fit into price * quoteLotSize, one more does not.
C10_PriceLotsPerMillion ==
  lots.done =>
    LET num == lots.price * lots.quoteLotSize
        den == lots.baseLotSize * MICRO
    IN IF num < den
         THEN lots.priceLots = 1
         ELSE /\ lots.priceLots * den <= num
              /\ num < (lots.priceLots + 1) * den

\* mintIrmaToken's price of 1.04 USDC on a market with both lot sizes 1.
C10_Witness ==
  /\ lots.done
  /\ lots.price = 1040000
  /\ lots.baseLotSize = 1
  /\ lots.quoteLotSize = 1
  /\ lots.priceLots = 1

\* The product a * b of two naturals below 2^31, as five digits to the base
\* 10000, the most significant first (the first digit is not reduced).
WideProduct(a, b) ==
  LET a0 == a % 10000
      a1 == (a \div 10000) % 10000
      a2 == a \div 100000000
      b0 == b % 10000
      b1 == (b \div 10000) % 10000
      b2 == b \div 100000000
      s0 == a0 * b0
      s1 == a0 * b1 + a1 * b0 + s0 \div 10000
      s2 == a0 * b2 + a1 * b1 + a2 * b0 + s1 \div 10000
      s3 == a1 * b2 + a2 * b1 + s2 \div 10000
      s4 == a2 * b2 + s3 \div 10000
  IN <<s4, s3 % 10000, s2 % 10000, s1 % 10000, s0 % 10000>>

\* x < y for two such products.
WideLess(x, y) ==
  \E i \in 1..5 : x[i] < y[i] /\ \A j \in 1..(i - 1) : x[j] = y[j]

\* C11: in both variants of createOpenBookV2OrderInstruction (src/lib/mint.ts
\* and src/unnamed/part_000), for every order request with a positive price
\* and every market with positive lot sizes, the priceLots built is at
\* least 1.
C11_PriceLotsAtLeastOne ==
  (lots.done /\ lots.price >= 1) =>
    /\ lots.priceLots >= 1
    /\ lots.variantPriceLots >= 1

\* C12: for a quantity that is not negative, maxBaseLots is
\* floor(size / baseLotSize) and is not negative.  The floor is stated by
\* its bounds: maxBaseLots whole lots fit into the size, one more does not.
C12_MaxBaseLotsFormula ==
  lots.done =>
    /\ lots.maxBaseLots >= 0
    /\ lots.maxBaseLots * lots.baseLotSize <= lots.size
    /\ lots.size < (lots.maxBaseLots + 1) * lots.baseLotSize

\* 2.5 tokens on a market whose base lot is 3 micro-units.
C12_Witness ==
  /\ lots.done
  /\ lots.size = 2500000
  /\ lots.baseLotSize = 3
  /\ lots.maxBaseLots = 833333

C29_SidePreserved ==
  lots.done =>
    /\ lots.side = lots.requestSide
    /\ lots.variantSide = lots.variantRequestSide

----------------------------------------------------------------------------
(* TokenBalances (src/components/TokenBalances.tsx): fetchTokenBalances,   *)
(* started by the effect that runs when the wallet changes.                *)

\* What getParsedTokenAccountsByOwner reports for an account: uiAmount (0
\* also stands for null) and decimals.
UiAmounts == {0, 1500}
Decimals == {0, 6, 9}

\* What getBalance answers, in lamports.
Lamports == {0, 2000000000}

\* x || d
OrElse(x, d) == IF x = 0 THEN d ELSE x

TokenRecord(token, balance, decimals) ==
  [mint |-> token.symbol, symbol |-> token.symbol, balance |-> balance,
   decimals |-> decimals, mintAddress |-> token.mint]

SolRecord(lamports) ==
  [mint |-> "SOL", symbol |-> "SOL",
   balance |-> lamports \div LAMPORTS_PER_SOL, decimals |-> 9,
   mintAddress |-> "Native SOL"]

\* A slip: the degraded result is reported without an error message.
FallbackNoError == NoError

\* setError(...) of the native-currency fallback
FallbackError == "Token fetching failed, showing SOL balance only"

\* A slip: the inner handler of the fallback sets no error.
TotalFailureSilent == NoError

\* setError(...) of the inner handler of the fallback
TotalFailure == "Failed to fetch any balances. Please check your connection."

\* setTokenBalances(list); setError(err) where the code sets one;
\* onBalanceUpdate(list), which is MintForm's handleBalanceUpdate; then the
\* finally block: setIsLoading(false).
Report(r, run, list, err) ==
  /\ bal' = [bal EXCEPT
               !.tokenBalances = list,
               !.error = IF err = NoError THEN @ ELSE err,
               !.isLoading = FALSE,
               !.delivered = Append(@, [balances |-> list,
                                        publicKey |-> run.publicKey]),
               !.run[r] = [run EXCEPT !.pc = "done", !.reported = list,
                                      !.error = err]]
  /\ form' = [form EXCEPT !.tokenBalances = list, !.updates = @ + 1,
                          !.owner = run.publicKey]

\* The inner handler of the fallback: setError(...), then the finally block.
ReportNothing(r, run) ==
  /\ bal' = [bal EXCEPT
               !.error = TotalFailure,
               !.isLoading = FALSE,
               !.run[r] = [run EXCEPT !.pc = "done", !.native = "failed",
                                      !.error = TotalFailure]]
  /\ UNCHANGED form

\* The outer handler: the fallback calls getWorkingConnection again.
ToOuter(run) ==
  [run EXCEPT !.outer = TRUE, !.tier = "native", !.pc = "gwc",
              !.ep = GwcStart]

\* The wallet adapter reports a wallet; the effect of TokenBalances runs
\* fetchTokenBalances up to its first await, inside getWorkingConnection.
\* Every render builds its own rateLimiter object, with lastRequestTime 0.
Connect(w, r) ==
  /\ wallet # w
  /\ bal.fetches < MaxFetches
  /\ bal.run[r].pc \in {"idle", "done"}
  /\ wallet' = w
  /\ bal' = [bal EXCEPT
               !.isLoading = TRUE,
               !.error = NoError,
               !.fetches = @ + 1,
               !.run[r] = [NoRun EXCEPT !.pc = "gwc", !.publicKey = w,
                                        !.tier = "tokens",
                                        !.ep = GwcStart]]
  /\ UNCHANGED <<rlVars, mintVars, q, lots, form>>

\* The wallet disconnects; the effect clears the list of TokenBalances.
Disconnect ==
  /\ wallet # 0
  /\ wallet' = 0
  /\ bal' = [bal EXCEPT !.tokenBalances = <<>>]
  /\ UNCHANGED <<rlVars, mintVars, q, lots, form>>

\* The loop goes on to a token: rateLimiter.throttle() is called and either
\* waits or stores the time and returns at once, and then
\* getParsedAccountInfo is called.
BeginToken(r, run) ==
  LET timeSinceLastRequest == now - run.lastRequestTime
  IN bal' = [bal EXCEPT
               !.run[r] =
                 IF timeSinceLastRequest < RATE_LIMIT_DELAY
                   THEN [run EXCEPT
                           !.pc = "throttle",
                           !.wakeAt = now + WaitTime(timeSinceLastRequest)]
                   ELSE [run EXCEPT !.pc = "mintinfo",
                                    !.lastRequestTime = now]]

\* getWorkingConnection, in the per-token pass or in the fallback: the
\* getSlot probe of one endpoint answers or fails.
ReadProbe(r) ==
  LET run == bal.run[r]
  IN /\ run.pc = "gwc"
     /\ \E ok \in BOOLEAN :
          \/ /\ ok
             /\ run.tier = "tokens"
             /\ BeginToken(r, run)
             /\ UNCHANGED <<rlVars, form>>
          \/ /\ ok
             /\ run.tier = "native"
             /\ bal' = [bal EXCEPT !.run[r].pc = "getbalance"]
             /\ UNCHANGED <<rlVars, form>>
          \/ /\ ~ok
             /\ ~GwcExhausted(run.ep)
             /\ bal' = [bal EXCEPT !.run[r].ep = GwcNext(@)]
             /\ UNCHANGED <<rlVars, form>>
          \/ /\ ~ok
             /\ GwcExhausted(run.ep)
             /\ run.tier = "tokens"
             /\ bal' = [bal EXCEPT !.run[r] = ToOuter(run)]
             /\ UNCHANGED <<rlVars, form>>
          \/ /\ ~ok
             /\ GwcExhausted(run.ep)
             /\ run.tier = "native"
             /\ ReportNothing(r, run)
             /\ UNCHANGED rlVars
     /\ UNCHANGED <<wallet, mintVars, q, lots>>

\* The throttle's timer fires; getParsedAccountInfo is called.
TokenWake(r) ==
  /\ bal.run[r].pc = "throttle"
  /\ now >= bal.run[r].wakeAt
  /\ bal' = [bal EXCEPT !.run[r].pc = "mintinfo",
                        !.run[r].lastRequestTime = now]
  /\ UNCHANGED <<rlVars, wallet, form, mintVars, q, lots>>

\* getParsedAccountInfo(mint) answers or throws; both are only logged, and
\* getParsedTokenAccountsByOwner is called.
MintInfo(r) ==
  /\ bal.run[r].pc = "mintinfo"
  /\ \E res \in {"ok", "error"} :
       bal' = [bal EXCEPT !.run[r].pc = "accounts",
                          !.run[r].mints = Append(@, res)]
  /\ UNCHANGED <<rlVars, wallet, form, mintVars, q, lots>>

\* A slip: a failure while reading a token goes on to the outer handler.
TokenFailureRethrown == "outer"

\* The handler inside the loop records the token with balance 0.
TokenFailure == "record"

AllZero(list) == \A i \in 1..Len(list) : list[i].balance = 0

\* getParsedTokenAccountsByOwner(publicKey, {mint}) answers with no account
\* or with one, or throws; the token's record is pushed; then the next token,
\* or the end of the loop.
TokenAccounts(r) ==
  LET run == bal.run[r]
  IN /\ run.pc = "accounts"
     /\ \E ans \in {"error", "none", "account"},
           ui \in UiAmounts, dec \in Decimals :
          /\ ans # "account" => (ui = 0 /\ dec = 0)
          /\ LET token == TOKENS[Len(run.balances) + 1]
                 rec == IF ans = "account"
                          THEN TokenRecord(token, OrElse(ui, 0),
                                           OrElse(dec, 6))
                          ELSE TokenRecord(token, 0, 6)
                 nxt == [run EXCEPT !.balances = Append(@, rec),
                                    !.answers = Append(@, ans)]
                 rethrown == ans = "error" /\ TokenFailure = "outer"
             IN \/ /\ rethrown
                   /\ bal' = [bal EXCEPT
                                !.run[r] =
                                  ToOuter([run EXCEPT
                                             !.answers = Append(@, ans)])]
                   /\ UNCHANGED <<rlVars, form>>
                \/ /\ ~rethrown
                   /\ Len(nxt.balances) < Len(TOKENS)
                   /\ BeginToken(r, nxt)
                   /\ UNCHANGED <<rlVars, form>>
                \/ /\ ~rethrown
                   /\ Len(nxt.balances) = Len(TOKENS)
                   /\ AllZero(nxt.balances)
                   /\ bal' = [bal EXCEPT
                                !.run[r] = [nxt EXCEPT !.pc = "scan"]]
                   /\ UNCHANGED <<rlVars, form>>
                \/ /\ ~rethrown
                   /\ Len(nxt.balances) = Len(TOKENS)
                   /\ ~AllZero(nxt.balances)
                   /\ Report(r, nxt, nxt.balances, NoError)
                   /\ UNCHANGED rlVars
     /\ UNCHANGED <<wallet, mintVars, q, lots>>

\* A slip: a failure of the scan goes on to the outer handler.
ScanFailureRethrown == "outer"

\* The scan's own handler only logs the failure.
ScanFailure == "logged"

\* getParsedTokenAccountsByOwner(publicKey, {programId}) answers or throws;
\* then the records are reported.
Scan(r) ==
  LET run == bal.run[r]
  IN /\ run.pc = "scan"
     /\ \E res \in {"ok", "failed"} :
          LET nxt == [run EXCEPT !.scan = res]
          IN IF res = "failed" /\ ScanFailure = "outer"
               THEN /\ bal' = [bal EXCEPT !.run[r] = ToOuter(nxt)]
                    /\ UNCHANGED form
               ELSE Report(r, nxt, nxt.balances, NoError)
     /\ UNCHANGED <<rlVars, wallet, mintVars, q, lots>>

\* connection.getBalance(publicKey) of the fallback answers or throws.
GetBalance(r) ==
  LET run == bal.run[r]
  IN /\ run.pc = "getbalance"
     /\ \/ \E l \in Lamports :
             Report(r, [run EXCEPT !.native = "ok"], <<SolRecord(l)>>,
                    FallbackError)
        \/ ReportNothing(r, run)
     /\ UNCHANGED <<rlVars, wallet, mintVars, q, lots>>

InitRead ==
  /\ now = StartTime
  /\ lastRequestTime = 0
  /\ thr = <<>>
  /\ retLog = <<>>
  /\ overlapped = FALSE
  /\ prevConn = 0
  /\ m = <<>>
  /\ calls = 0
  /\ q = "none"
  /\ wallet = 0
  /\ form = NoForm
  /\ bal = NoBal
  /\ lots = NoLots

NextRead ==
  \/ TickUpTo(ReadTicks)
  \/ \E w \in Wallets, r \in FetchRuns : Connect(w, r)
  \/ Disconnect
  \/ \E r \in FetchRuns : ReadProbe(r)
  \/ \E r \in FetchRuns : TokenWake(r)
  \/ \E r \in FetchRuns : MintInfo(r)
  \/ \E r \in FetchRuns : TokenAccounts(r)
  \/ \E r \in FetchRuns : Scan(r)
  \/ \E r \in FetchRuns : GetBalance(r)

SpecRead == InitRead /\ [][NextRead]_vars

----------------------------------------------------------------------------
(* Balance reader claims, checked under SpecRead *)

\* One record for each tracked token, with balance 0 and 6 decimals.
ZeroRecords == [i \in 1..Len(TOKENS) |-> TokenRecord(TOKENS[i], 0, 6)]

\* The run got a connection and every tracked token's lookup found no
\* account.
NoAccounts(run) == run.answers = [i \in 1..Len(TOKENS) |-> "none"]

\* C19: when a connection is obtained and the wallet has no token account
\* for any tracked token, the run holds one record per tracked token, each
\* with balance 0 and 6 decimals; it goes on to the scan of all accounts,
\* and whether the scan answers or fails the run ends having reported just
\* those records, with no error set and the outer handler not reached.
C19_NoAccounts ==
  \A r \in FetchRuns :
    LET run == bal.run[r]
    IN NoAccounts(run) =>
         /\ run.balances = ZeroRecords
         /\ run.pc \in {"scan", "done"}
         /\ run.pc = "done" =>
              /\ run.scan \in {"ok", "failed"}
              /\ run.reported = ZeroRecords
              /\ run.error = NoError
              /\ ~run.outer

\* No account for either token, and the scan failed.
C19_Witness ==
  \E r \in FetchRuns :
    /\ NoAccounts(bal.run[r])
    /\ bal.run[r].pc = "done"
    /\ bal.run[r].scan = "failed"
    /\ bal.run[r].reported = ZeroRecords
    /\ form.tokenBalances = ZeroRecords

\* C20: a run whose per-token pass failed into the outer handler reports
\* nothing but the native-currency record (SOL, 9 decimals): when the
\* fallback's balance lookup answers, the run reports exactly that one
\* record, hands it to onBalanceUpdate and sets the degraded-result error
\* message; no record of a tracked token is reported.
C20_DegradedTier ==
  \A r \in FetchRuns :
    LET run == bal.run[r]
    IN run.outer =>
         /\ run.reported \in {<<>>} \cup {<<SolRecord(l)>> : l \in Lamports}
         /\ run.native = "ok" =>
              /\ run.pc = "done"
              /\ Len(run.reported) = 1
              /\ run.reported[1].symbol = "SOL"
              /\ run.reported[1].decimals = 9
              /\ run.error = "Token fetching failed, showing SOL balance only"
              /\ \E i \in 1..Len(bal.delivered) :
                   bal.delivered[i] = [balances |-> run.reported,
                                       publicKey |-> run.publicKey]

\* All three endpoints were down for the per-token pass; the fallback found
\* one up and read 2 SOL.
C20_Witness ==
  \E r \in FetchRuns :
    /\ bal.run[r].outer
    /\ bal.run[r].pc = "done"
    /\ bal.run[r].reported = <<SolRecord(2000000000)>>
    /\ bal.tokenBalances = <<SolRecord(2000000000)>>
    /\ form.tokenBalances = <<SolRecord(2000000000)>>
    /\ bal.error = "Token fetching failed, showing SOL balance only"

\* C21: when the per-token pass fails and the native fallback fails too,
\* the run ends (no exception leaves fetchTokenBalances) with the error
\* "Failed to fetch any balances. Please check your connection." set, with
\* nothing reported through onBalanceUpdate, and with isLoading false.
C21_TotalFailure ==
  \A r \in FetchRuns :
    LET run == bal.run[r]
    IN (run.outer /\ run.native = "failed") =>
         /\ run.pc = "done"
         /\ run.error =
              "Failed to fetch any balances. Please check your connection."
         /\ bal.error = run.error
         /\ run.reported = <<>>
         /\ bal.isLoading = FALSE

\* Every endpoint was down for the per-token pass; the fallback found one
\* up and getBalance threw.
C21_Witness ==
  \E r \in FetchRuns :
    /\ bal.run[r].outer
    /\ bal.run[r].native = "failed"
    /\ bal.run[r].pc = "done"
    /\ bal.run[r].ep <= Len(Endpoints)
    /\ bal.error # NoError

\* Record i of the list is for tracked token i and its balance is not
\* negative.
TrackedRecord(rec, i) ==
  /\ rec.symbol = TOKENS[i].symbol
  /\ rec.mint = TOKENS[i].symbol
  /\ rec.mintAddress = TOKENS[i].mint
  /\ rec.balance >= 0

\* What holds of a run once it has a connection for the per-token pass,
\* whichever lookups fail: the outer handler is not reached, every token
\* whose lookup was answered has its record, and the list the run reports
\* holds one record for each tracked token, in the order of TOKENS.
OneRecordPerToken(run) ==
  /\ ~run.outer
  /\ Len(run.balances) = Len(run.answers)
  /\ \A i \in 1..Len(run.balances) : TrackedRecord(run.balances[i], i)
  /\ run.pc = "done" =>
       /\ Len(run.reported) = Len(TOKENS)
       /\ run.reported = run.balances

\* C22 as stated: a failure of either lookup of a token (its mint lookup
\* or its token-account lookup) gives that token the record with balance 0
\* and 6 decimals, the remaining tokens are still read, and the reported
\* list holds one record per tracked token in the order of TOKENS, each
\* with a balance that is not negative.
C22_AnyFailureZero ==
  \A r \in FetchRuns :
    LET run == bal.run[r]
    IN Len(run.answers) > 0 =>
         /\ OneRecordPerToken(run)
         /\ \A i \in 1..Len(run.balances) :
              (run.answers[i] = "error" \/ run.mints[i] = "error")
                => run.balances[i] = TokenRecord(TOKENS[i], 0, 6)

\* C22: a failure of a token's token-account lookup gives that token the
\* record with balance 0 and 6 decimals, while a failure of its mint lookup
\* alone is only logged and the record comes from the token-account lookup;
\* either way the remaining tokens are still read, and the reported list
\* holds one record per tracked token in the order of TOKENS, each with a
\* balance that is not negative.
C22_TokenIsolation ==
  \A r \in FetchRuns :
    LET run == bal.run[r]
    IN Len(run.answers) > 0 =>
         /\ OneRecordPerToken(run)
         /\ \A i \in 1..Len(run.balances) :
              /\ run.answers[i] = "error"
                   => run.balances[i] = TokenRecord(TOKENS[i], 0, 6)
              /\ run.answers[i] = "none"
                   => run.balances[i] = TokenRecord(TOKENS[i], 0, 6)
              /\ run.answers[i] = "account"
                   => \E ui \in UiAmounts, dec \in Decimals :
                        run.balances[i] =
                          TokenRecord(TOKENS[i], OrElse(ui, 0),
                                      OrElse(dec, 6))

\* The account lookup of IRMA threw and the mint lookup of USDC threw, and
\* the run reported 0 IRMA and the 1500 USDC of the wallet's account.
C22_Witness ==
  \E r \in FetchRuns :
    LET run == bal.run[r]
    IN /\ run.pc = "done"
       /\ run.answers = <<"error", "account">>
       /\ run.mints = <<"ok", "error">>
       /\ run.reported = <<TokenRecord(TOKENS[1], 0, 6),
                           TokenRecord(TOKENS[2], 1500, 6)>>
       /\ form.tokenBalances = run.reported

----------------------------------------------------------------------------
(* MintForm (src/components/MintForm.tsx): the amount field, the balance   *)
(* snapshot that TokenBalances delivers, and the Mint button.  React runs   *)
(* a click's handler and the render its state updates ask for before the    *)
(* browser dispatches the next event, so the button a click meets was       *)
(* rendered from the current state.  mintIrmaToken is the call in flight    *)
(* between handleMint's await and its return.                               *)

\* What the amount field can hold.
FormAmounts == {-5, 0, 1000, 2000}

UsdcBalances == {0, 1040, 1500, 2000, 3000}

\* The lists TokenBalances delivers.
Snapshots ==
  {<<TokenRecord(TOKENS[1], 0, 6), TokenRecord(TOKENS[2], u, 6)>> :
     u \in UsdcBalances}
    \cup {<<SolRecord(2000000000)>>}

\* getUSDCBalance: the balance of the first record with symbol USDC, else 0.
GetUSDCBalance(list) ==
  IF \E i \in 1..Len(list) : list[i].symbol = "USDC"
    THEN list[CHOOSE i \in 1..Len(list) :
                /\ list[i].symbol = "USDC"
                /\ \A j \in 1..(i - 1) : list[j].symbol # "USDC"].balance
    ELSE 0

\* hasEnoughBalance: usdcBalance >= amount * 1.04 (in hundredths).
HasEnoughBalance ==
  GetUSDCBalance(form.tokenBalances) * 100 >= form.amount * 104

\* A slip: the button stays enabled while a submission is in flight.
DisabledUnlessMinting ==
  form.amount <= 0 \/ ~HasEnoughBalance \/ wallet = 0

\* The Mint button's disabled attribute.
ButtonDisabled ==
  form.isMinting \/ form.amount <= 0 \/ ~HasEnoughBalance \/ wallet = 0

\* handleBalanceUpdate(balances)
HandleBalanceUpdate(list) ==
  /\ form.updates < MaxUpdates
  /\ form' = [form EXCEPT !.tokenBalances = list, !.updates = @ + 1]
  /\ UNCHANGED <<rlVars, mintVars, q, lots, wallet, bal>>

\* The amount field's onChange.
SetAmount(a) ==
  /\ form.amount # a
  /\ form' = [form EXCEPT !.amount = a]
  /\ UNCHANGED <<rlVars, mintVars, q, lots, wallet, bal>>

\* A slip: the pre-check compares the balance with the amount, not with
\* the amount times the mint rate.
EnoughAtFaceValue == GetUSDCBalance(form.tokenBalances) >= form.amount

\* The pre-check of handleMint: hasEnoughBalance().
PreCheck == HasEnoughBalance

\* handleMint up to its first return or to its await of mintIrmaToken: it
\* returns at once without a public key, without signTransaction or with an
\* amount that is not positive; it shows a warning and returns when the
\* pre-check fails; otherwise it sets isMinting and calls mintIrmaToken.
HandleMint ==
  /\ form.calls < MaxClicks
  /\ LET missing == wallet = 0 \/ wallet \notin Signers \/ form.amount <= 0
     IN \/ /\ missing
           /\ form' = [form EXCEPT !.calls = @ + 1]
        \/ /\ ~missing
           /\ ~PreCheck
           /\ form' = [form EXCEPT !.calls = @ + 1, !.warnings = @ + 1]
        \/ /\ ~missing
           /\ PreCheck
           /\ Len(form.passed) < MaxMints
           /\ form' = [form EXCEPT
                         !.calls = @ + 1,
                         !.isMinting = TRUE,
                         !.inFlight = @ + 1,
                         !.passed = Append(@, [amount |-> form.amount,
                                               usdc |-> GetUSDCBalance(
                                                          form.tokenBalances),
                                               updates |-> form.updates,
                                               publicKey |-> wallet,
                                               owner |-> form.owner])]
  /\ UNCHANGED <<rlVars, mintVars, q, lots, wallet, bal>>

\* A click on the Mint button, which the browser delivers only while the
\* button is enabled.
ClickMint ==
  /\ ~ButtonDisabled
  /\ HandleMint

\* A slip: a successful mint also drops the snapshot.
AfterMintCleared(f, success) ==
  [f EXCEPT !.isMinting = FALSE,
            !.inFlight = @ - 1,
            !.amount = IF success THEN 1000 ELSE @,
            !.tokenBalances = IF success THEN <<>> ELSE @]

\* What handleMint does to the form's state once mintIrmaToken has returned.
AfterMint(f, success) ==
  [f EXCEPT !.isMinting = FALSE,
            !.inFlight = @ - 1,
            !.amount = IF success THEN 1000 ELSE @]

\* mintIrmaToken returns; the toast, setAmount(1000) after a success, and
\* the finally block: setIsMinting(false).
MintReturns(success) ==
  /\ form.inFlight > 0
  /\ form' = AfterMint(form, success)
  /\ UNCHANGED <<rlVars, mintVars, q, lots, wallet, bal>>

InitForm ==
  /\ now = StartTime
  /\ lastRequestTime = 0
  /\ thr = <<>>
  /\ retLog = <<>>
  /\ overlapped = FALSE
  /\ prevConn = 0
  /\ m = <<>>
  /\ calls = 0
  /\ q = "none"
  /\ wallet \in FormWallets
  /\ form = NoForm
  /\ bal = NoBal
  /\ lots = NoLots

NextForm ==
  \/ \E list \in Snapshots : HandleBalanceUpdate(list)
  \/ \E a \in FormAmounts : SetAmount(a)
  \/ ClickMint
  \/ \E success \in BOOLEAN : MintReturns(success)

SpecForm == InitForm /\ [][NextForm]_vars

\* handleMint called on any state of the form, whether or not the button
\* that calls it is enabled.
NextHandle ==
  \/ \E list \in Snapshots : HandleBalanceUpdate(list)
  \/ \E a \in FormAmounts : SetAmount(a)
  \/ HandleMint
  \/ \E success \in BOOLEAN : MintReturns(success)

SpecHandle == InitForm /\ [][NextHandle]_vars

\* C18, as stated: a submission can be started from the form while another
\* is in flight, with a pre-check that passes against the snapshot the
\* first one's pre-check saw (so that two are in flight at a combined cost
\* the snapshot does not cover).
C18_OverlapAccepted ==
  (/\ form.inFlight = 1
   /\ Len(form.passed) < MaxMints
   /\ form.calls < MaxClicks
   /\ wallet \in Signers
   /\ form.amount > 0
   /\ HasEnoughBalance)
    => ENABLED ClickMint

\* C18, amended: at most one submission from the form is in flight, and
\* isMinting is true exactly while one is.
C18_OneInFlight ==
  /\ form.inFlight <= 1
  /\ form.isMinting <=> (form.inFlight = 1)

\* What is reached instead: two submissions one after the other, each passing
\* its pre-check against the same snapshot (no list delivered in between),
\* at a combined cost above the USDC balance of that snapshot; the second is
\* in flight after the first has returned.
C18_Witness ==
  /\ Len(form.passed) = 2
  /\ form.inFlight = 1
  /\ form.passed[1].updates = form.passed[2].updates
  /\ form.passed[1].usdc = form.passed[2].usdc
  /\ (form.passed[1].amount + form.passed[2].amount) * 104
       > form.passed[1].usdc * 100

----------------------------------------------------------------------------
(* handleMint claims, checked under SpecHandle *)

\* C23: a call of handleMint calls mintIrmaToken (and sets isMinting) only
\* when there is a public key and a signTransaction callback, the amount is
\* positive and the USDC balance of the snapshot is at least amount x 1.04;
\* any other call submits nothing, leaves isMinting as it was (false when
\* nothing is in flight), and shows a warning exactly when it got as far as
\* the balance comparison; it does not try again.
C23_PreCheck ==
  [][form'.calls # form.calls =>
       LET missing == wallet = 0 \/ wallet \notin Signers \/ form.amount <= 0
           enough == GetUSDCBalance(form.tokenBalances) * 100
                       >= form.amount * 104
       IN IF ~missing /\ enough
            THEN /\ form'.inFlight = form.inFlight + 1
                 /\ form'.isMinting
                 /\ form'.warnings = form.warnings
                 /\ Len(form'.passed) = Len(form.passed) + 1
            ELSE /\ form'.inFlight = form.inFlight
                 /\ form'.passed = form.passed
                 /\ form'.isMinting = form.isMinting
                 /\ form.inFlight = 0 => ~form'.isMinting
                 /\ form'.warnings =
                      IF missing THEN form.warnings ELSE form.warnings + 1
                 /\ form'.amount = form.amount
                 /\ form'.tokenBalances = form.tokenBalances]_vars

\* handleMint was called twice by a wallet that can sign: once it showed the
\* warning and submitted nothing (2000 tokens against 2000 USDC, say), once
\* it passed the pre-check, and that submission is in flight.
C23_Witness ==
  /\ wallet \in Signers
  /\ form.calls = 2
  /\ form.warnings = 1
  /\ Len(form.passed) = 1
  /\ form.inFlight = 1
  /\ form.isMinting
  /\ form.passed[1].usdc * 100 >= form.passed[1].amount * 104

----------------------------------------------------------------------------
(* Two invocations of mintIrmaToken for the same wallet that may overlap:  *)
(* the function is exported and nothing in it refuses a second call while  *)
(* one is suspended at an await.  Both share the module's rateLimiter.     *)

OverlapProcs == {1, 2}

InitOverlap ==
  /\ now = StartTime
  /\ lastRequestTime = 0
  /\ thr = [p \in OverlapProcs |-> NoThrottle]
  /\ retLog = <<>>
  /\ overlapped = FALSE
  /\ prevConn = 0
  /\ m = [p \in OverlapProcs |-> Idle]
  /\ calls = 0
  /\ q = "none"
  /\ wallet = 0
  /\ form = NoForm
  /\ bal = NoBal
  /\ lots = NoLots

\* Every collaborator answers at once: the first endpoint is up, the market
\* account exists, the market has lot sizes 1 and 1, nothing fails.  What is
\* left open is how the steps of the two invocations and the clock interleave.
Answered(r) ==
  /\ r.err = ""
  /\ r.acct # "missing"
  /\ r.sim # "err"
  /\ \A i \in 1..Len(r.probes) : r.probes[i].ok
  /\ \/ r.market = [baseLotSize |-> 1, quoteLotSize |-> 1, isNull |-> FALSE]
     \/ r.market = NullMarket /\ r.pc \in {"idle", "throttle", "gwc",
                                           "acctinfo", "fetch"}

NextOverlap ==
  \/ TickUpTo(MintTicks)
  \/ \E p \in OverlapProcs : Invoke(p, 1000)
  \/ \E p \in OverlapProcs : ThrottleDone(p)
  \/ \E p \in OverlapProcs : Probe(p) /\ Answered(m'[p])
  \/ \E p \in OverlapProcs : GetAccountInfo(p) /\ Answered(m'[p])
  \/ \E p \in OverlapProcs : FetchMarket(p) /\ Answered(m'[p])
  \/ \E p \in OverlapProcs : CreateOpenOrders(p) /\ Answered(m'[p])
  \/ \E p \in OverlapProcs : PlaceOrderIx(p) /\ Answered(m'[p])
  \/ \E p \in OverlapProcs : GetBlockhash(p) /\ Answered(m'[p])
  \/ \E p \in OverlapProcs : Simulate(p) /\ Answered(m'[p])
  \/ \E p \in OverlapProcs : Sign(p) /\ Answered(m'[p])
  \/ \E p \in OverlapProcs : Send(p) /\ Answered(m'[p])
  \/ \E p \in OverlapProcs : FinalBlockhash(p) /\ Answered(m'[p])

SpecOverlap == InitOverlap /\ [][NextOverlap]_vars

\* C17: any two order instructions built for the same wallet, by invocations
\* one after the other or overlapping, carry distinct clientOrderId values.
C17_NonceUnique ==
  \A p1, p2 \in OverlapProcs :
    (/\ p1 # p2
     /\ m[p1].orderArgs # NoArgs
     /\ m[p2].orderArgs # NoArgs)
      => m[p1].orderArgs.clientOrderId # m[p2].orderArgs.clientOrderId

----------------------------------------------------------------------------
(* TokenBalances inside MintForm: wallets are connected, changed and       *)
(* disconnected while fetchTokenBalances runs and while the Mint button is  *)
(* used.  The effect has no cleanup: a run started for one wallet goes on   *)
(* after the wallet has changed, next to the run started for the new one.   *)

\* The runs of fetchTokenBalances followed, numbered in the order they start.
UiRuns == 1..MaxFetches

\* What each wallet holds, the same for the whole session: wallet 1 has a
\* USDC account with 1500 and no IRMA account, wallet 2 has no account.
Holdings(w) ==
  <<TokenRecord(TOKENS[1], 0, 6),
    TokenRecord(TOKENS[2], IF w = 1 THEN 1500 ELSE 0, 6)>>

\* Every lookup of the run has answered, and with what the wallet holds.
Settled(run) ==
  /\ run.ep = GwcStart
  /\ ~run.outer
  /\ run.scan # "failed"
  /\ \A i \in 1..Len(run.mints) : run.mints[i] = "ok"
  /\ Len(run.balances) <= Len(TOKENS)
  /\ \A i \in 1..Len(run.balances) :
       /\ run.balances[i] = Holdings(run.publicKey)[i]
       /\ run.answers[i] =
            IF run.balances[i].balance = 0 THEN "none" ELSE "account"

InitUI ==
  /\ now = StartTime
  /\ lastRequestTime = 0
  /\ thr = <<>>
  /\ retLog = <<>>
  /\ overlapped = FALSE
  /\ prevConn = 0
  /\ m = <<>>
  /\ calls = 0
  /\ q = "none"
  /\ wallet = 0
  /\ form = NoForm
  /\ bal = [NoBal EXCEPT !.run = [r \in UiRuns |-> NoRun]]
  /\ lots = NoLots

NextUI ==
  \/ TickUpTo(ReadTicks)
  \/ \E w \in Wallets : Connect(w, bal.fetches + 1)
  \/ Disconnect
  \/ \E r \in UiRuns : ReadProbe(r) /\ Settled(bal'.run[r])
  \/ \E r \in UiRuns : TokenWake(r)
  \/ \E r \in UiRuns : MintInfo(r) /\ Settled(bal'.run[r])
  \/ \E r \in UiRuns : TokenAccounts(r) /\ Settled(bal'.run[r])
  \/ \E r \in UiRuns : Scan(r) /\ Settled(bal'.run[r])
  \/ ClickMint
  \/ \E success \in BOOLEAN : MintReturns(success)

SpecUI == InitUI /\ [][NextUI]_vars

\* Every run that was started has completed.
AllRunsDone ==
  \A r \in UiRuns : r <= bal.fetches => bal.run[r].pc = "done"

\* C25: when the wallet changed while a run for the previous wallet was in
\* flight, then once every started run has completed the list TokenBalances
\* holds and the list delivered last through onBalanceUpdate are the ones
\* fetched for the wallet that is connected.
C25_Convergence ==
  (/\ wallet # 0
   /\ bal.fetches >= 2
   /\ bal.run[bal.fetches].publicKey = wallet
   /\ AllRunsDone)
    => /\ bal.tokenBalances = bal.run[bal.fetches].reported
       /\ bal.delivered[Len(bal.delivered)].publicKey = wallet
       /\ form.owner = wallet

\* C26: whenever handleMint passed its pre-check, the snapshot it compared
\* against had been fetched for the wallet connected at that moment; and
\* while no wallet is connected the form holds no balances of the wallet
\* connected before.
C26_SnapshotOfCurrentWallet ==
  /\ \A i \in 1..Len(form.passed) :
       form.passed[i].owner = form.passed[i].publicKey
  /\ wallet = 0 => form.tokenBalances = <<>>

\* What a step leaves alone: a handleMint call or a return of mintIrmaToken
\* changes neither the snapshot nor anything of TokenBalances; a run of
\* fetchTokenBalances starts only with a wallet being connected or changed;
\* the snapshot changes only to the list of a delivery.
SnapshotStep ==
  /\ (form'.calls # form.calls \/ form'.inFlight # form.inFlight)
       => (/\ form'.tokenBalances = form.tokenBalances
           /\ form'.updates = form.updates
           /\ bal' = bal)
  /\ (bal'.fetches # bal.fetches)
       => (wallet' # wallet /\ wallet' # 0)
  /\ (form'.tokenBalances # form.tokenBalances)
       => (/\ Len(bal'.delivered) = Len(bal.delivered) + 1
           /\ form'.tokenBalances =
                bal'.delivered[Len(bal'.delivered)].balances)

\* C27: a handleMint call and the return of mintIrmaToken, with true or with
\* false, leave the form's snapshot as it is and start no run of
\* fetchTokenBalances; a run starts only when a wallet is connected or
\* changed, and the snapshot changes only by a delivery of such a run; so
\* two submissions with no delivery between them passed their pre-checks
\* against the same balance.
C27_SnapshotUnchanged ==
  /\ [][SnapshotStep]_vars
  /\ [](\A i, j \in 1..Len(form.passed) :
          form.passed[i].updates = form.passed[j].updates
            => form.passed[i].usdc = form.passed[j].usdc)

\* Wallet 1's 1500 USDC were delivered once; two submissions of 1000 tokens
\* each passed their pre-checks against them, the first has returned and the
\* second is in flight, and no other run was started.
C27_Witness ==
  /\ wallet = 1
  /\ bal.fetches = 1
  /\ form.updates = 1
  /\ form.owner = 1
  /\ Len(form.passed) = 2
  /\ form.inFlight = 1
  /\ form.passed[1].usdc = 1500
  /\ form.passed[2].usdc = 1500
  /\ GetUSDCBalance(form.tokenBalances) = 1500

====
